---- MODULE Spec2Model ----
(***************************************************************************)
(* Model of paddlenlp/trainer/utils/reshard/pp_reshard.py: the layer       *)
(* classifier, the name-scope tree, the segmentation planner, the          *)
(* stage/segment/layer aggregate and the construction of                   *)
(* PipeLineSegmentContext, followed by its read-only queries.              *)
(*                                                                         *)
(* Names are modelled structurally.  A structure (parameter) name such as  *)
(* "ernie.layers.3.q_proj.weight" is the sequence of its dot-separated     *)
(* components <<"ernie","layers","3","q_proj","weight">>.  A tensor name   *)
(* such as "linear_10.w_0" is the record                                   *)
(* [prefix |-> "linear", num |-> 10, rest |-> "w_0"]; its first dotted     *)
(* component is "linear_10".  None is NoneVal.                             *)
(***************************************************************************)
EXTENDS Integers, Sequences, FiniteSets, TLC

(***************************************************************************)
(* Bounds of the model.                                                    *)
(***************************************************************************)
MaxBlocks == 4      \* transformer blocks of the logical model: 0..MaxBlocks
MaxPP == 3          \* target pp_degree: 1..MaxPP
MaxVPP == 2         \* target vpp_degree: 1..MaxVPP
MaxSrcBase == 9     \* largest first index of the source tensor names

(***************************************************************************)
(* Generic helpers: Python values, OrderedDict, str comparison.            *)
(***************************************************************************)
NoneVal == <<>>

Range(a, b) == {x \in a..(b - 1) : TRUE}

Max2(a, b) == IF a >= b THEN a ELSE b

Min2(a, b) == IF a <= b THEN a ELSE b

\* OrderedDict as a sequence of <<key, value>> pairs in insertion order.
OD_Keys(od) == {od[i][1] : i \in DOMAIN od}

OD_Has(od, k) == \E i \in DOMAIN od : od[i][1] = k

OD_Get(od, k) == od[CHOOSE i \in DOMAIN od : od[i][1] = k][2]

\* od[k] = v: an existing key keeps its position, a new key is appended.
OD_Set(od, k, v) ==
    IF OD_Has(od, k)
    THEN [i \in DOMAIN od |-> IF od[i][1] = k THEN <<k, v>> ELSE od[i]]
    ELSE Append(od, <<k, v>>)

\* dict (unordered) as a function; d[k] = v.
D_Set(d, k, v) == [x \in (DOMAIN d) \cup {k} |-> IF x = k THEN v ELSE d[x]]

EmptyDict == [x \in {} |-> 0]

Reverse(s) == [i \in 1..Len(s) |-> s[Len(s) + 1 - i]]

\* Decimal digits of a natural number, most significant first (str(n)).
RECURSIVE Digits(_)
Digits(n) == IF n < 10 THEN <<n>> ELSE Append(Digits(n \div 10), n % 10)

\* Lexicographic order on digit strings that are each followed by "."
\* ("." sorts before every digit, so a proper prefix is the smaller one).
RECURSIVE DigitsLess(_, _)
DigitsLess(a, b) ==
    IF a = <<>> THEN b # <<>>
    ELSE IF b = <<>> THEN FALSE
    ELSE IF Head(a) # Head(b) THEN Head(a) < Head(b)
    ELSE DigitsLess(Tail(a), Tail(b))

(***************************************************************************)
(* LayerNameScope.prefix_to_template (lines 61-68), in table order.        *)
(***************************************************************************)
prefix_to_template ==
    << <<"column_sequence_parallel_linear", "column_sequence_parallel_linear">>,
       <<"row_sequence_parallel_linear", "row_sequence_parallel_linear">>,
       <<"linear", "linear">>,
       <<"layer_norm", "layer_norm">>,
       <<"embedding", "embedding">>,
       <<"create_parameter", "create_parameter">>,
       <<"ernie_lm_head", "ernie_lm_head">> >>

\* Position of a name prefix in Python's str order (used by sorted()).
PrefixRank(p) ==
    CASE p = "column_sequence_parallel_linear" -> 1
      [] p = "conv" -> 2
      [] p = "create_parameter" -> 3
      [] p = "embedding" -> 4
      [] p = "ernie_lm_head" -> 5
      [] p = "layer_norm" -> 6
      [] p = "linear" -> 7
      [] p = "row_sequence_parallel_linear" -> 8

RestRank(r) == CASE r = "b_0" -> 1 [] r = "w_0" -> 2

\* Python's str "<" on two tensor names "<prefix>_<num>.<rest>".
TensorNameLess(a, b) ==
    IF a.prefix # b.prefix THEN PrefixRank(a.prefix) < PrefixRank(b.prefix)
    ELSE IF a.num # b.num THEN DigitsLess(Digits(a.num), Digits(b.num))
    ELSE RestRank(a.rest) < RestRank(b.rest)

\* old_name.split(".")[0]: the first dotted component of a tensor name.
FirstComponent(t) == [prefix |-> t.prefix, num |-> t.num]

(***************************************************************************)
(* Layer classifier (lines 141-173).                                       *)
(***************************************************************************)
DigitStr == <<"0", "1", "2", "3", "4", "5", "6", "7", "8", "9">>

IsDigits(s) == \E i \in DOMAIN DigitStr : DigitStr[i] = s

\* int(s) for a string of digits.
IntOf(s) == (CHOOSE i \in DOMAIN DigitStr : DigitStr[i] = s) - 1

StrOf(n) == DigitStr[n + 1]

\* extract_layer_name: first matching pattern's matched text, else None.
extract_layer_name(param_name) ==
    IF Len(param_name) >= 3 /\ param_name[1] = "ernie"
       /\ param_name[2] = "layers" /\ IsDigits(param_name[3])
    THEN SubSeq(param_name, 1, 3)
    ELSE IF Len(param_name) >= 2 /\ param_name[1] = "ernie"
            /\ param_name[2] = "embed_tokens"
    THEN SubSeq(param_name, 1, 2)
    ELSE IF Len(param_name) >= 2 /\ param_name[1] = "ernie"
            /\ param_name[2] = "norm"
    THEN SubSeq(param_name, 1, 2)
    ELSE IF Len(param_name) >= 1 /\ param_name[1] = "lm_head"
    THEN SubSeq(param_name, 1, 1)
    ELSE NoneVal

\* slip of lines 165-168: the ordinals of the norm and the head exchanged
index_layer_swapped(layer_name, transformer_layer_num) ==
    IF layer_name = <<"ernie", "embed_tokens">>
    THEN [ok |-> TRUE, index |-> 0]
    ELSE IF layer_name = <<"ernie", "norm">>
    THEN [ok |-> TRUE, index |-> transformer_layer_num + 2]
    ELSE IF layer_name = <<"lm_head">>
    THEN [ok |-> TRUE, index |-> transformer_layer_num + 1]
    ELSE IF Len(layer_name) >= 3 /\ layer_name[1] = "ernie"
            /\ layer_name[2] = "layers" /\ IsDigits(layer_name[3])
    THEN [ok |-> TRUE, index |-> IntOf(layer_name[3]) + 1]
    ELSE [ok |-> FALSE, index |-> 0]

\* index_layer: [ok |-> FALSE] stands for the failed assert / TypeError.
index_layer(layer_name, transformer_layer_num) ==
    IF layer_name = <<"ernie", "embed_tokens">>
    THEN [ok |-> TRUE, index |-> 0]
    ELSE IF layer_name = <<"ernie", "norm">>
    THEN [ok |-> TRUE, index |-> transformer_layer_num + 1]
    ELSE IF layer_name = <<"lm_head">>
    THEN [ok |-> TRUE, index |-> transformer_layer_num + 2]
    ELSE IF Len(layer_name) >= 3 /\ layer_name[1] = "ernie"
            /\ layer_name[2] = "layers" /\ IsDigits(layer_name[3])
    THEN [ok |-> TRUE, index |-> IntOf(layer_name[3]) + 1]
    ELSE [ok |-> FALSE, index |-> 0]

(***************************************************************************)
(* Segmentation planner: PipeLineSegmentContext._segment (lines 310-352).  *)
(* A Python list of length n is a sequence; list index i is position i+1.  *)
(***************************************************************************)
Zeros(n) == [i \in 1..n |-> 0]

\* slips of line 342: the extra layers given from one range too early, or
\* given to the first ranges instead of the last
uniform_offset_early(i, stage_num, extra_layers) ==
    IF i >= (stage_num - extra_layers) THEN 1 ELSE 0

uniform_offset_first(i, stage_num, extra_layers) ==
    IF i <= extra_layers THEN 1 ELSE 0

\* line 342: offset = 1 if i > (stage_num - extra_layers) else 0
uniform_offset(i, stage_num, extra_layers) ==
    IF i > (stage_num - extra_layers) THEN 1 ELSE 0

\* line 343: result[i] = int(min(result[i - 1] + part_size + offset, layer_num))
uniform_boundary(prev, part_size, offset, layer_num) ==
    Min2(prev + part_size + offset, layer_num)

\* lines 341-343: for i in range(1, stage_num)
RECURSIVE uniform_loop(_, _, _, _)
uniform_loop(result, i, layer_num, stage_num) ==
    IF i >= stage_num THEN result
    ELSE LET part_size == layer_num \div stage_num
             extra_layers == layer_num % stage_num
             offset == uniform_offset(i, stage_num, extra_layers)
             b == uniform_boundary(result[i], part_size, offset, layer_num)
         IN uniform_loop([result EXCEPT ![i + 1] = b], i + 1,
                         layer_num, stage_num)

\* slip of line 344: the last boundary is left at its initial 0
segment_uniform_open(layer_num, stage_num) ==
    [ok |-> TRUE,
     result |-> uniform_loop(Zeros(stage_num + 1), 1, layer_num, stage_num)]

\* lines 337-345
segment_uniform(layer_num, stage_num) ==
    LET r == uniform_loop(Zeros(stage_num + 1), 1, layer_num, stage_num)
    IN [ok |-> TRUE, result |-> [r EXCEPT ![stage_num + 1] = layer_num]]

\* lines 319-322: weight 1 for list indices 1 .. layer_num - 3, else 0
layer_weights(layer_num) ==
    [p \in 1..Max2(layer_num, 0) |->
        IF (p - 1) \in Range(1, layer_num - 2) THEN 1 ELSE 0]

RECURSIVE SumSeq(_)
SumSeq(s) == IF s = <<>> THEN 0 ELSE Head(s) + SumSeq(Tail(s))

\* line 330: if memory_counter == part_size
by_layer_cut(memory_counter, part_size) == memory_counter = part_size

\* lines 328-333: for idx, weight in enumerate(weights); st.ok = FALSE is
\* the IndexError of result[result_idx] = ... with result_idx > stage_num.
RECURSIVE by_layer_loop(_, _, _, _, _)
by_layer_loop(st, idx, weights, part_size, stage_num) ==
    IF ~st.ok \/ idx >= Len(weights) THEN st
    ELSE LET mc == st.memory_counter + weights[idx + 1]
         IN IF by_layer_cut(mc, part_size)
            THEN IF st.result_idx > stage_num
                 THEN [st EXCEPT !.ok = FALSE]
                 ELSE by_layer_loop(
                        [ok |-> TRUE,
                         result |-> [st.result EXCEPT
                                        ![st.result_idx + 1] = idx + 1],
                         result_idx |-> st.result_idx + 1,
                         memory_counter |-> 0],
                        idx + 1, weights, part_size, stage_num)
            ELSE by_layer_loop([st EXCEPT !.memory_counter = mc],
                               idx + 1, weights, part_size, stage_num)

\* lines 315-335
segment_by_layer(layer_num, stage_num) ==
    LET weights == layer_weights(layer_num)
        part_size == SumSeq(weights) \div stage_num
        st == by_layer_loop([ok |-> TRUE, result |-> Zeros(stage_num + 1),
                             result_idx |-> 1, memory_counter |-> 0],
                            0, weights, part_size, stage_num)
    IN IF st.ok
       THEN [ok |-> TRUE,
             result |-> [st.result EXCEPT ![stage_num + 1] = layer_num]]
       ELSE [ok |-> FALSE, result |-> <<>>]

\* slip of line 350: consecutive ranges kept on one stage
stage_of_range_block(i, pp_degree) == i \div pp_degree

\* line 350: range i goes to stage i % pp_degree
stage_of_range(i, pp_degree) == i % pp_degree

\* lines 348-350: index_segments[i % pp_degree].append((result[i], result[i+1]))
RECURSIVE assign_ranges(_, _, _, _, _)
assign_ranges(index_segments, i, result, stage_num, pp_degree) ==
    IF i >= stage_num THEN index_segments
    ELSE LET s == stage_of_range(i, pp_degree) + 1
         IN assign_ranges(
              [index_segments EXCEPT
                 ![s] = Append(@, <<result[i + 1], result[i + 2]>>)],
              i + 1, result, stage_num, pp_degree)

\* line 347
segment_boundaries(segment_method, layer_num, stage_num) ==
    IF segment_method = "uniform"
    THEN segment_uniform(layer_num, stage_num)
    ELSE segment_by_layer(layer_num, stage_num)

(***************************************************************************)
(* Name-scope tree: LayerNameScope and LayerReNamingManager (lines 60-138). *)
(* A first component "linear_3" is [prefix |-> "linear", num |-> 3]; the   *)
(* empty string in last_old_layer_name is EmptyName, in last_layer_id it   *)
(* is NoneVal (no layer name is empty).                                    *)
(***************************************************************************)
EmptyName == [prefix |-> "", num |-> 0]

\* LayerNameScope.__init__ (lines 70-76)
LayerNameScope(prefix, template) ==
    [prefix |-> prefix, last_layer_id |-> NoneVal,
     last_old_layer_name |-> EmptyName, template |-> template,
     index |-> -1, sub_scopes |-> <<>>]

\* get_layer_prefix (lines 85-90): first table key the name starts with.
get_layer_prefix(old_layer_name) ==
    LET hits == {i \in DOMAIN prefix_to_template :
                    prefix_to_template[i][1] = old_layer_name.prefix}
    IN IF hits = {} THEN ""
       ELSE prefix_to_template[CHOOSE i \in hits : \A j \in hits : i <= j][1]

\* slip of line 93: the layer is not compared
is_new_occurrence_nolayer(scope, layer_id, old_layer_name) ==
    old_layer_name # scope.last_old_layer_name

\* slip of line 93: "and" for "or"
is_new_occurrence_and(scope, layer_id, old_layer_name) ==
    old_layer_name # scope.last_old_layer_name
        /\ layer_id # scope.last_layer_id

\* line 93: a new occurrence starts when the component or the layer changes
is_new_occurrence(scope, layer_id, old_layer_name) ==
    old_layer_name # scope.last_old_layer_name
        \/ layer_id # scope.last_layer_id

\* get_next_scope (lines 92-98)
get_next_scope(scope, layer_id, old_layer_name) ==
    IF is_new_occurrence(scope, layer_id, old_layer_name)
    THEN [scope EXCEPT !.index = scope.index + 1,
                       !.last_old_layer_name = old_layer_name,
                       !.last_layer_id = layer_id,
                       !.sub_scopes = <<>>]
    ELSE scope

\* get_layer_name (lines 100-106); the root has no template and no prefix
\* and yields "", every scope below the root has prefix "".
get_layer_name(scope) ==
    IF scope.template = "" THEN EmptyName
    ELSE IF scope.prefix = ""
    THEN [prefix |-> scope.template, num |-> scope.index]
    ELSE [outer |-> scope.prefix, prefix |-> scope.template,
          num |-> scope.index]

\* get_sub_scope (lines 108-117) on the root scope: the root after the
\* call (the child is created on first use) and the key of the child.
get_sub_scope(scope, sub_layer_name) ==
    LET layer_prefix == get_layer_prefix(sub_layer_name)
    IN IF layer_prefix = "" THEN [ok |-> FALSE, scope |-> scope, key |-> ""]
       ELSE IF OD_Has(scope.sub_scopes, layer_prefix)
       THEN [ok |-> TRUE, scope |-> scope, key |-> layer_prefix]
       ELSE LET layer_template ==
                   OD_Get(prefix_to_template, layer_prefix)
                prefix == get_layer_name(scope).prefix
                child == LayerNameScope(prefix, layer_template)
            IN [ok |-> TRUE,
                scope |-> [scope EXCEPT !.sub_scopes =
                              OD_Set(@, layer_prefix, child)],
                key |-> layer_prefix]

\* LayerReNamingManager.__init__ (lines 121-122)
LayerReNamingManager == [top_layer_name_scope |-> LayerNameScope("", "")]

\* get_new_layer_name (lines 127-132); extract_layer_names returns the
\* one-element list [old_name], so the walk is one level deep.
get_new_layer_name(mgr, layer_id, old_name) ==
    LET sub == get_sub_scope(mgr.top_layer_name_scope, old_name)
    IN IF ~sub.ok THEN [ok |-> FALSE, mgr |-> mgr, name |-> EmptyName]
       ELSE LET child == get_next_scope(OD_Get(sub.scope.sub_scopes, sub.key),
                                        layer_id, old_name)
                top == [sub.scope EXCEPT !.sub_scopes =
                           OD_Set(@, sub.key, child)]
            IN [ok |-> TRUE, mgr |-> [top_layer_name_scope |-> top],
                name |-> get_layer_name(child)]

\* get_new_param_name (lines 134-138): names[0] is replaced, the rest kept.
get_new_param_name(mgr, layer_id, old_name) ==
    LET r == get_new_layer_name(mgr, layer_id, FirstComponent(old_name))
    IN IF ~r.ok THEN [ok |-> FALSE, mgr |-> mgr, name |-> old_name]
       ELSE [ok |-> TRUE, mgr |-> r.mgr,
             name |-> [prefix |-> r.name.prefix, num |-> r.name.num,
                       rest |-> old_name.rest]]

(***************************************************************************)
(* PipeLinelayer, PipeLineSegment, PipeLineStage (lines 176-246).          *)
(***************************************************************************)
\* line 180: key=lambda x: x[1], compared as Python strings
param_sort_less(a, b) == TensorNameLess(a[2], b[2])

\* sorted() is stable: x goes before the first element that is greater.
RECURSIVE InsertSorted(_, _)
InsertSorted(s, x) ==
    IF s = <<>> THEN <<x>>
    ELSE IF param_sort_less(x, Head(s)) THEN <<x>> \o s
    ELSE <<Head(s)>> \o InsertSorted(Tail(s), x)

RECURSIVE SortedParams(_)
SortedParams(s) ==
    IF s = <<>> THEN <<>>
    ELSE InsertSorted(SortedParams(SubSeq(s, 1, Len(s) - 1)), s[Len(s)])

RECURSIVE OD_FromPairs(_, _)
OD_FromPairs(od, pairs) ==
    IF pairs = <<>> THEN od
    ELSE OD_FromPairs(OD_Set(od, Head(pairs)[1], Head(pairs)[2]), Tail(pairs))

\* PipeLinelayer.__init__ (lines 177-183)
PipeLinelayer(layer_name, param_names) ==
    [_layer_name |-> layer_name,
     _params |-> OD_FromPairs(<<>>, SortedParams(param_names))]

\* PipeLineSegment.__init__ (lines 195-199)
PipeLineSegment(start_index, end_index) ==
    [_start_index |-> start_index, _end_index |-> end_index,
     _cur_index |-> start_index, _layers |-> <<>>]

\* slip of line 202: the assert is missing
segment_has_room_always(segment) == TRUE

\* line 202: assert self._cur_index < self._end_index
segment_has_room(segment) == segment._cur_index < segment._end_index

\* PipeLineSegment.add_layer (lines 201-205)
segment_add_layer(segment, layer_name, param_names) ==
    IF ~segment_has_room(segment) THEN [ok |-> FALSE, segment |-> segment]
    ELSE [ok |-> TRUE,
          segment |-> [segment EXCEPT
              !._layers = OD_Set(@, layer_name,
                                 PipeLinelayer(layer_name, param_names)),
              !._cur_index = segment._cur_index + 1]]

\* line 209: assert self._cur_index == self._end_index
segment_is_full(segment) == segment._cur_index = segment._end_index

\* PipeLineStage.__init__ (lines 214-219).  Segment objects live in
\* objs; _segments and _layer_to_segment hold references into it.
PipeLineStage ==
    [_rename_mgr |-> LayerReNamingManager, objs |-> <<>>,
     _segments |-> <<>>, _layer_to_segment |-> EmptyDict,
     _param_to_tname |-> <<>>]

\* PipeLineStage.add_segment (lines 221-225)
stage_add_segment(stage, start_index, end_index) ==
    LET ref == Len(stage.objs) + 1
    IN [stage EXCEPT
          !.objs = Append(@, PipeLineSegment(start_index, end_index)),
          !._segments = OD_Set(@, start_index, ref),
          !._layer_to_segment =
              [i \in (DOMAIN @) \cup Range(start_index, end_index) |->
                  IF i \in Range(start_index, end_index) THEN ref ELSE @[i]]]

\* PipeLineStage.add_layer (lines 227-230)
stage_add_layer(stage, layer_index, layer_name, param_names) ==
    IF layer_index \notin DOMAIN stage._layer_to_segment
    THEN [ok |-> FALSE, stage |-> stage]
    ELSE LET ref == stage._layer_to_segment[layer_index]
             r == segment_add_layer(stage.objs[ref], layer_name, param_names)
         IN [ok |-> r.ok,
             stage |-> [stage EXCEPT !.objs[ref] = r.segment]]

\* PipeLineStage.build_name_mapping (lines 232-240), innermost loop:
\* the parameters of one layer, in the order of layer.params.
RECURSIVE build_params(_, _, _)
build_params(st, layer, k) ==
    IF ~st.ok \/ k > Len(layer._params) THEN st
    ELSE LET param_name == layer._params[k][1]
             tensor_name == layer._params[k][2]
             r == get_new_param_name(st.stage._rename_mgr,
                                     layer._layer_name, tensor_name)
         IN IF ~r.ok THEN [st EXCEPT !.ok = FALSE]
            ELSE build_params(
                   [ok |-> TRUE,
                    stage |-> [st.stage EXCEPT
                        !._rename_mgr = r.mgr,
                        !._param_to_tname =
                            OD_Set(@, param_name, <<tensor_name, r.name>>)]],
                   layer, k + 1)

\* the layers of one segment, in the order of segment.layers
RECURSIVE build_layers(_, _, _)
build_layers(st, layers, k) ==
    IF ~st.ok \/ k > Len(layers) THEN st
    ELSE build_layers(build_params(st, layers[k][2], 1), layers, k + 1)

\* slip: every segment is named with a fresh LayerReNamingManager
RECURSIVE build_segments_reset(_, _)
build_segments_reset(st, k) ==
    IF ~st.ok \/ k > Len(st.stage._segments) THEN st
    ELSE LET segment == st.stage.objs[st.stage._segments[k][2]]
             fresh == [st EXCEPT !.stage._rename_mgr = LayerReNamingManager]
         IN IF ~segment_is_full(segment) THEN [st EXCEPT !.ok = FALSE]
            ELSE build_segments_reset(
                     build_layers(fresh, segment._layers, 1), k + 1)

\* the segments of the stage, in the order of self._segments; reading
\* segment.layers asserts that the segment is full.
RECURSIVE build_segments(_, _)
build_segments(st, k) ==
    IF ~st.ok \/ k > Len(st.stage._segments) THEN st
    ELSE LET segment == st.stage.objs[st.stage._segments[k][2]]
         IN IF ~segment_is_full(segment) THEN [st EXCEPT !.ok = FALSE]
            ELSE build_segments(build_layers(st, segment._layers, 1), k + 1)

build_name_mapping(stage) == build_segments([ok |-> TRUE, stage |-> stage], 1)

\* slip of line 245: the presented tensor name is not compared
stage_map_name_unchecked(stage, param_name, t_name) ==
    IF ~OD_Has(stage._param_to_tname, param_name)
    THEN [ok |-> FALSE, value |-> EmptyName]
    ELSE [ok |-> TRUE, value |-> OD_Get(stage._param_to_tname, param_name)[2]]

\* PipeLineStage.map_name (lines 242-246)
stage_map_name(stage, param_name, t_name) ==
    IF ~OD_Has(stage._param_to_tname, param_name)
    THEN [ok |-> FALSE, value |-> EmptyName]
    ELSE LET e == OD_Get(stage._param_to_tname, param_name)
         IN IF e[1] # t_name THEN [ok |-> FALSE, value |-> EmptyName]
            ELSE [ok |-> TRUE, value |-> e[2]]

(***************************************************************************)
(* The parameter catalogue: the metadata of a source checkpoint and        *)
(* extract_param_names_groupby_layer (lines 24-44).                        *)
(*                                                                         *)
(* The logical model has an embedding, `blocks` transformer blocks (a      *)
(* linear with weight and bias, a linear with weight only and a layer      *)
(* norm), a final norm and a head.  A source sharding fixes the first      *)
(* index `base` its tensor names count from and whether the model was      *)
(* split over two source pipeline ranks (`split`): each rank numbers its   *)
(* sub-layers from `base` again and lists its names in its own order.      *)
(* `shape` lets the metadata be ill-formed (a block number skipped, the    *)
(* head missing).                                                          *)
(***************************************************************************)
TName(prefix, num, rest) == [prefix |-> prefix, num |-> num, rest |-> rest]

BlockLabel(k, source) ==
    IF source.shape = "gap" /\ k = source.blocks - 1 THEN source.blocks ELSE k

\* the first block held by source pipeline rank 1 (all blocks on rank 0
\* when the source is not split)
SplitAt(source) ==
    IF source.split THEN (source.blocks + 1) \div 2 ELSE source.blocks

\* position of block k among the blocks of its source rank
LocalBlock(k, source) ==
    IF k >= SplitAt(source) THEN k - SplitAt(source) ELSE k

BlockParams(k, source) ==
    LET b == StrOf(BlockLabel(k, source))
        m == LocalBlock(k, source)
    IN << << <<"ernie", "layers", b, "q_proj", "weight">>,
             TName("linear", source.base + 2 * m, "w_0") >>,
          << <<"ernie", "layers", b, "q_proj", "bias">>,
             TName("linear", source.base + 2 * m, "b_0") >>,
          << <<"ernie", "layers", b, "o_proj", "weight">>,
             TName("linear", source.base + 2 * m + 1, "w_0") >>,
          << <<"ernie", "layers", b, "input_layernorm", "weight">>,
             TName("layer_norm", source.base + m, "w_0") >> >>

RECURSIVE BlocksParams(_, _, _)
BlocksParams(k, last, source) ==
    IF k >= last THEN <<>>
    ELSE BlockParams(k, source) \o BlocksParams(k + 1, last, source)

HeadParams(source) ==
    << << <<"ernie", "norm", "weight">>,
          TName("layer_norm",
                source.base + (source.blocks - SplitAt(source))
                    + (IF source.split THEN 0 ELSE source.blocks),
                "w_0") >> >>
    \o (IF source.shape = "nohead" THEN <<>>
        ELSE << << <<"lm_head", "weight">>,
                   TName("ernie_lm_head", source.base, "w_0") >> >>)

\* structure name -> tensor name held by source pipeline rank 0
Rank0Params(source) ==
    << << <<"ernie", "embed_tokens", "weight">>,
          TName("embedding", source.base, "w_0") >> >>
    \o BlocksParams(0, SplitAt(source), source)
    \o (IF source.split THEN <<>> ELSE HeadParams(source))

\* structure name -> tensor name held by source pipeline rank 1
Rank1Params(source) ==
    BlocksParams(SplitAt(source), source.blocks, source) \o HeadParams(source)

\* sharding_metas[...]["structure_name_mapping"] per source pp_rank: one
\* rank listing the model in order, or two ranks each listing its part of
\* the model backwards.
SourceMeta(source) ==
    IF source.split
    THEN << Reverse(Rank0Params(source)), Reverse(Rank1Params(source)) >>
    ELSE << Rank0Params(source) >>

\* lines 39-43 for one name mapping
RECURSIVE group_mapping(_, _)
group_mapping(param_names_by_layer, name_mapping) ==
    IF name_mapping = <<>> THEN param_names_by_layer
    ELSE LET k == Head(name_mapping)[1]
             v == Head(name_mapping)[2]
             layer_name == extract_layer_name(k)
             old == IF OD_Has(param_names_by_layer, layer_name)
                    THEN OD_Get(param_names_by_layer, layer_name)
                    ELSE <<>>
         IN group_mapping(
              OD_Set(param_names_by_layer, layer_name, Append(old, <<k, v>>)),
              Tail(name_mapping))

\* lines 34-44: for pp_rank in range(pp_degree)
RECURSIVE group_ranks(_, _, _)
group_ranks(param_names_by_layer, meta, pp_rank) ==
    IF pp_rank > Len(meta) THEN param_names_by_layer
    ELSE group_ranks(group_mapping(param_names_by_layer, meta[pp_rank]),
                     meta, pp_rank + 1)

extract_param_names_groupby_layer(meta) == group_ranks(<<>>, meta, 1)

(***************************************************************************)
(* PipeLineSegmentContext (lines 254-385).  A context is a record of its   *)
(* fields, the local stage_segments of __init__ and the position pc of     *)
(* __init__: pc.at names the statement to run next, pc.i the stage,        *)
(* pc.s the segment of the stage and pc.j the ordinal.                     *)
(***************************************************************************)
PC(at, i, s, j) == [at |-> at, i |-> i, s |-> s, j |-> j]

Failed == PC("failed", 0, 0, 0)

\* __init__ lines 263-273
NewContext(transformer_layer_num, pp_degree, vpp_degree, segment_method, param_names_by_layer) ==
    [_transformer_layer_num |-> transformer_layer_num,
     _pp_degree |-> pp_degree,
     _vpp_degree |-> vpp_degree,
     _segment_method |-> segment_method,
     _param_names_by_layer |-> param_names_by_layer,
     _stages |-> <<>>,
     _layer_index_to_stage |-> EmptyDict,
     _layer_name_to_index |-> EmptyDict,
     _layer_index_to_name |-> EmptyDict,
     _layer_name_to_stage |-> EmptyDict,
     stage_segments |-> <<>>,
     pc |-> PC("index_layers", 0, 0, 0)]

\* slip of line 303: the assert is missing
transformer_layer_num_unchecked(ctx) ==
    IF ctx._transformer_layer_num > 0
    THEN [ok |-> TRUE, value |-> ctx._transformer_layer_num]
    ELSE [ok |-> TRUE, value |-> Len(ctx._param_names_by_layer) - 3]

\* the transformer_layer_num property (lines 300-308)
transformer_layer_num(ctx) ==
    IF ctx._transformer_layer_num > 0
    THEN [ok |-> Len(ctx._param_names_by_layer)
                    = ctx._transformer_layer_num + 3,
          value |-> ctx._transformer_layer_num]
    ELSE [ok |-> TRUE, value |-> Len(ctx._param_names_by_layer) - 3]

\* _index_layers (lines 294-298)
RECURSIVE index_layers_loop(_, _)
index_layers_loop(ctx, k) ==
    IF ctx.pc = Failed \/ k > Len(ctx._param_names_by_layer) THEN ctx
    ELSE LET layer_name == ctx._param_names_by_layer[k][1]
             n == transformer_layer_num(ctx)
             r == index_layer(layer_name, n.value)
         IN IF ~n.ok \/ ~r.ok THEN [ctx EXCEPT !.pc = Failed]
            ELSE index_layers_loop(
                   [ctx EXCEPT
                      !._layer_name_to_index = D_Set(@, layer_name, r.index),
                      !._layer_index_to_name = D_Set(@, r.index, layer_name)],
                   k + 1)

do_index_layers(ctx) ==
    LET c == index_layers_loop(ctx, 1)
    IN IF c.pc = Failed THEN c ELSE [c EXCEPT !.pc = PC("segment", 0, 0, 0)]

\* _segment (lines 310-352)
do_segment(ctx) ==
    LET n == transformer_layer_num(ctx)
        layer_num == n.value + 3
        stage_num == ctx._pp_degree * ctx._vpp_degree
        b == segment_boundaries(ctx._segment_method, layer_num, stage_num)
    IN IF ~n.ok \/ ~b.ok THEN [ctx EXCEPT !.pc = Failed]
       ELSE [ctx EXCEPT
               !.stage_segments =
                   assign_ranges([s \in 1..ctx._pp_degree |-> <<>>], 0,
                                 b.result, stage_num, ctx._pp_degree),
               !.pc = PC("new_stage", 0, 0, 0)]

\* slip of lines 291-292: the build loop is indented into the stage loop
after_stage_build_now(ctx, i) == PC("build", 0, 0, 0)

\* where __init__ continues after stage i is filled (lines 278, 291)
after_stage(ctx, i) ==
    IF i + 1 < Len(ctx.stage_segments) THEN PC("new_stage", i + 1, 0, 0)
    ELSE PC("build", 0, 0, 0)

\* where __init__ continues after segment s of stage i is filled (line 281)
after_segment(ctx, i, s) ==
    IF s < Len(ctx.stage_segments[i + 1]) THEN PC("add_segment", i, s + 1, 0)
    ELSE after_stage(ctx, i)

\* lines 279-280
do_new_stage(ctx) ==
    LET i == ctx.pc.i
    IN [ctx EXCEPT
          !._stages = Append(@, PipeLineStage),
          !.pc = IF ctx.stage_segments[i + 1] = <<>> THEN after_stage(ctx, i)
                 ELSE PC("add_segment", i, 1, 0)]

\* line 282
do_add_segment(ctx) ==
    LET i == ctx.pc.i
        s == ctx.pc.s
        seg == ctx.stage_segments[i + 1][s]
    IN [ctx EXCEPT
          !._stages[i + 1] = stage_add_segment(@, seg[1], seg[2]),
          !.pc = IF seg[1] < seg[2] THEN PC("add_layer", i, s, seg[1])
                 ELSE after_segment(ctx, i, s)]

\* lines 284-289
do_add_layer(ctx) ==
    LET i == ctx.pc.i
        s == ctx.pc.s
        j == ctx.pc.j
        seg == ctx.stage_segments[i + 1][s]
    IN IF j \notin DOMAIN ctx._layer_index_to_name
       THEN [ctx EXCEPT !.pc = Failed]
       ELSE LET layer_name == ctx._layer_index_to_name[j]
            IN IF ~OD_Has(ctx._param_names_by_layer, layer_name)
               THEN [ctx EXCEPT !.pc = Failed]
               ELSE LET r == stage_add_layer(
                               ctx._stages[i + 1], j, layer_name,
                               OD_Get(ctx._param_names_by_layer, layer_name))
                    IN IF ~r.ok
                       THEN [ctx EXCEPT !._stages[i + 1] = r.stage,
                                        !.pc = Failed]
                       ELSE [ctx EXCEPT
                               !._stages[i + 1] = r.stage,
                               !._layer_index_to_stage = D_Set(@, j, i),
                               !._layer_name_to_stage =
                                   D_Set(@, layer_name, i),
                               !.pc = IF j + 1 < seg[2]
                                      THEN PC("add_layer", i, s, j + 1)
                                      ELSE after_segment(ctx, i, s)]

\* lines 291-292, one stage
do_build(ctx) ==
    LET i == ctx.pc.i
        r == build_name_mapping(ctx._stages[i + 1])
    IN [ctx EXCEPT
          !._stages[i + 1] = r.stage,
          !.pc = IF ~r.ok THEN Failed
                 ELSE IF i + 1 < Len(ctx._stages) THEN PC("build", i + 1, 0, 0)
                 ELSE PC("done", 0, 0, 0)]

\* one statement of __init__
InitStep(ctx) ==
    CASE ctx.pc.at = "index_layers" -> do_index_layers(ctx)
      [] ctx.pc.at = "segment" -> do_segment(ctx)
      [] ctx.pc.at = "new_stage" -> do_new_stage(ctx)
      [] ctx.pc.at = "add_segment" -> do_add_segment(ctx)
      [] ctx.pc.at = "add_layer" -> do_add_layer(ctx)
      [] ctx.pc.at = "build" -> do_build(ctx)
      [] OTHER -> ctx

\* __init__ run to its end: a constructed context (pc.at = "done") or an
\* exception (pc.at = "failed")
RECURSIVE RunInit(_)
RunInit(ctx) ==
    IF ctx.pc.at \in {"done", "failed"} THEN ctx ELSE RunInit(InitStep(ctx))

\* build_pipeline_context (lines 47-57)
build_pipeline_context(meta, tln, dst_pp, dst_vpp, segment_method) ==
    RunInit(NewContext(tln, dst_pp, dst_vpp, segment_method,
                       extract_param_names_groupby_layer(meta)))

\* map_name_to_stage (lines 362-367)
map_name_to_stage(ctx, name) ==
    LET layer_name == extract_layer_name(name)
    IN IF layer_name \notin DOMAIN ctx._layer_name_to_index
       THEN [ok |-> FALSE, value |-> -1]
       ELSE LET layer_index == ctx._layer_name_to_index[layer_name]
            IN IF layer_index \notin DOMAIN ctx._layer_index_to_stage
               THEN [ok |-> FALSE, value |-> -1]
               ELSE [ok |-> TRUE,
                     value |-> ctx._layer_index_to_stage[layer_index]]

\* map_name (lines 354-360)
map_name(ctx, param_name, t_name) ==
    LET st == map_name_to_stage(ctx, param_name)
    IN IF ~st.ok THEN [ok |-> FALSE, value |-> EmptyName]
       ELSE stage_map_name(ctx._stages[st.value + 1], param_name, t_name)

\* Python's str "<" on two layer names
LayerNameRank(layer_name) ==
    IF layer_name = <<"ernie", "embed_tokens">> THEN 0
    ELSE IF layer_name = <<"ernie", "norm">> THEN 100
    ELSE IF layer_name = <<"lm_head">> THEN 101
    ELSE 1 + IntOf(layer_name[3])

\* tuple order of (layer_index, layer_name) used by sorted() on line 384
index_name_less(a, b) ==
    IF a[1] # b[1] THEN a[1] < b[1]
    ELSE LayerNameRank(a[2]) < LayerNameRank(b[2])

RECURSIVE InsertByIndex(_, _)
InsertByIndex(s, x) ==
    IF s = <<>> THEN <<x>>
    ELSE IF index_name_less(x, Head(s)) THEN <<x>> \o s
    ELSE <<Head(s)>> \o InsertByIndex(Tail(s), x)

\* slip of line 384: the lists are returned in the order of the argument
SortedByIndex_unsorted(s) == s

RECURSIVE SortedByIndex(_)
SortedByIndex(s) ==
    IF s = <<>> THEN <<>>
    ELSE InsertByIndex(SortedByIndex(SubSeq(s, 1, Len(s) - 1)), s[Len(s)])

\* lines 379-383
RECURSIVE segment_layers_loop(_, _, _)
segment_layers_loop(ctx, st, layer_names) ==
    IF ~st.ok \/ layer_names = <<>> THEN st
    ELSE LET layer_name == Head(layer_names)
         IN IF layer_name \notin DOMAIN ctx._layer_name_to_index
            THEN [st EXCEPT !.ok = FALSE]
            ELSE LET layer_index == ctx._layer_name_to_index[layer_name]
                 IN IF layer_index \notin DOMAIN ctx._layer_index_to_stage
                    THEN [st EXCEPT !.ok = FALSE]
                    ELSE LET stage_index ==
                                ctx._layer_index_to_stage[layer_index]
                         IN segment_layers_loop(ctx,
                              [st EXCEPT !.value[stage_index + 1] =
                                  Append(@, <<layer_index, layer_name>>)],
                              Tail(layer_names))

\* segment_layers (lines 377-385)
segment_layers(ctx, layer_names) ==
    LET st == segment_layers_loop(ctx,
                [ok |-> TRUE, value |-> [e \in 1..ctx._pp_degree |-> <<>>]],
                layer_names)
    IN IF ~st.ok THEN [ok |-> FALSE, value |-> <<>>]
       ELSE [ok |-> TRUE,
             value |-> [e \in 1..ctx._pp_degree |->
                          LET srt == SortedByIndex(st.value[e])
                          IN [k \in 1..Len(srt) |-> srt[k][2]]]]

(***************************************************************************)
(* convert_pp_in_group (lines 393-430).  The state bag NodeModelState and  *)
(* its methods are not part of this file; they are modelled by their       *)
(* interface: three bags keyed by (structure name, tensor name) and a      *)
(* learning-rate scheduler, a collective reshard that leaves a rank the    *)
(* gathered entries its filter accepts, map_name that rewrites the tensor  *)
(* name of every key, split_state that groups the entries by the value of  *)
(* the split function.                                                     *)
(***************************************************************************)
NodeModelState ==
    [model_weights |-> {}, opt_state |-> {}, master_weights |-> {},
     lr_scheduler |-> NoneVal]

add_weights(st, model_weights) ==
    [st EXCEPT !.model_weights = @ \cup model_weights]

add_opts(st, opt_state) == [st EXCEPT !.opt_state = @ \cup opt_state]

add_master_weights(st, master_weights) ==
    [st EXCEPT !.master_weights = @ \cup master_weights]

set_lr_scheduler(st, lr_scheduler) == [st EXCEPT !.lr_scheduler = lr_scheduler]

\* the order of the statements of convert_pp_in_group: the loop of lines
\* 400-408, then lines 418, 424 and 430
ConvSteps == <<"consume", "reshard", "map_name", "split", "returned">>

\* slip: the names are rewritten before the collective
ConvSteps_rename_first ==
    <<"consume", "map_name", "reshard", "split", "returned">>

\* slip: the statement after `at` in the order of ConvSteps_rename_first
step_after_rename_first(at) ==
    LET k == CHOOSE i \in DOMAIN ConvSteps_rename_first :
                 ConvSteps_rename_first[i] = at
    IN ConvSteps_rename_first[k + 1]

\* the statement that follows statement `at`
step_after(at) ==
    LET k == CHOOSE i \in DOMAIN ConvSteps : ConvSteps[i] = at
    IN ConvSteps[k + 1]

\* slip of line 400: the step of the range is left out
next_source_rank_step1(p, pp_degree) == p + 1

\* line 400: range(pp_rank, src_stage_num, pp_degree)
next_source_rank(p, pp_degree) == p + pp_degree

\* lines 394-400: the locals of one invocation before the first iteration
Invocation(pp_degree, pp_rank, src_stage_num) ==
    [at |-> IF pp_rank < src_stage_num THEN "consume"
            ELSE step_after("consume"),
     pp_degree |-> pp_degree, pp_rank |-> pp_rank, p |-> pp_rank,
     node_model_state |-> NodeModelState, result |-> <<>>]

\* slip of line 404: the entry is left in the cache
consume_keep(inv, cache, sharding_rank_, src_stage_num_) ==
    LET cache_key == <<sharding_rank_, inv.p>>
    IN IF cache_key \notin DOMAIN cache
       THEN [inv |-> [inv EXCEPT !.at = "failed"], cache |-> cache]
       ELSE LET tmp_node_model_state == cache[cache_key]
                q == next_source_rank(inv.p, inv.pp_degree)
            IN [cache |-> cache,
                inv |-> [inv EXCEPT
                   !.node_model_state =
                       set_lr_scheduler(
                         add_master_weights(
                           add_opts(
                             add_weights(@,
                                 tmp_node_model_state.model_weights),
                             tmp_node_model_state.opt_state),
                           tmp_node_model_state.master_weights),
                         tmp_node_model_state.lr_scheduler),
                   !.p = q,
                   !.at = IF q < src_stage_num_ THEN "consume"
                          ELSE step_after("consume")]]

\* one iteration of the loop of lines 400-408
consume(inv, cache, sharding_rank_, src_stage_num_) ==
    LET cache_key == <<sharding_rank_, inv.p>>
    IN IF cache_key \notin DOMAIN cache
       THEN [inv |-> [inv EXCEPT !.at = "failed"], cache |-> cache]
       ELSE LET tmp_node_model_state == cache[cache_key]
                q == next_source_rank(inv.p, inv.pp_degree)
            IN [cache |-> [k \in (DOMAIN cache) \ {cache_key} |-> cache[k]],
                inv |-> [inv EXCEPT
                   !.node_model_state =
                       set_lr_scheduler(
                         add_master_weights(
                           add_opts(
                             add_weights(@,
                                 tmp_node_model_state.model_weights),
                             tmp_node_model_state.opt_state),
                           tmp_node_model_state.master_weights),
                         tmp_node_model_state.lr_scheduler),
                   !.p = q,
                   !.at = IF q < src_stage_num_ THEN "consume"
                          ELSE step_after("consume")]]

\* filter_func (lines 413-416)
filter_func(ctx, inv, name) ==
    LET stage_id == map_name_to_stage(ctx, name[1])
    IN IF ~stage_id.ok \/ ~(stage_id.value < inv.pp_degree)
       THEN [ok |-> FALSE, value |-> FALSE]
       ELSE [ok |-> TRUE, value |-> stage_id.value = inv.pp_rank]

\* what the ranks of the group hold in one bag when the collective starts
Gathered(invs, bag) ==
    UNION {invs[r].node_model_state[bag] : r \in DOMAIN invs}

BagNames == {"model_weights", "opt_state", "master_weights"}

\* line 418 on rank r: node_model_state.reshard(group, filter_func)
reshard(invs, r, ctx) ==
    LET names == UNION {Gathered(invs, bag) : bag \in BagNames}
        keep(bag) == {n \in Gathered(invs, bag) :
                         filter_func(ctx, invs[r], n).value}
    IN IF \E n \in names : ~filter_func(ctx, invs[r], n).ok
       THEN [invs[r] EXCEPT !.at = "failed"]
       ELSE [invs[r] EXCEPT
               !.node_model_state =
                   [model_weights |-> keep("model_weights"),
                    opt_state |-> keep("opt_state"),
                    master_weights |-> keep("master_weights"),
                    lr_scheduler |-> @.lr_scheduler],
               !.at = step_after("reshard")]

\* name_map_func (lines 420-422)
name_map_func(ctx, structure_name, p_name) ==
    map_name(ctx, structure_name, p_name)

\* line 424: node_model_state.map_name(name_map_func)
state_map_name(inv, ctx) ==
    LET st == inv.node_model_state
        names == UNION {st[bag] : bag \in BagNames}
        renamed(bag) ==
            {<<n[1], name_map_func(ctx, n[1], n[2]).value>> : n \in st[bag]}
    IN IF \E n \in names : ~name_map_func(ctx, n[1], n[2]).ok
       THEN [inv EXCEPT !.at = "failed"]
       ELSE [inv EXCEPT
               !.node_model_state =
                   [model_weights |-> renamed("model_weights"),
                    opt_state |-> renamed("opt_state"),
                    master_weights |-> renamed("master_weights"),
                    lr_scheduler |-> @.lr_scheduler],
               !.at = step_after("map_name")]

\* split_func (lines 426-428)
split_func(ctx, name) == map_name_to_stage(ctx, name[1])

\* line 430: return node_model_state.split_state(split_func)
split_state(inv, ctx) ==
    LET st == inv.node_model_state
        names == UNION {st[bag] : bag \in BagNames}
        part(bag, i) == {n \in st[bag] : split_func(ctx, n).value = i}
    IN IF \E n \in names : ~split_func(ctx, n).ok
       THEN [inv EXCEPT !.at = "failed"]
       ELSE [inv EXCEPT
               !.result =
                   [i \in {split_func(ctx, n).value : n \in names} |->
                       [model_weights |-> part("model_weights", i),
                        opt_state |-> part("opt_state", i),
                        master_weights |-> part("master_weights", i),
                        lr_scheduler |-> st.lr_scheduler]],
               !.at = step_after("split")]

(***************************************************************************)
(* The state machine: one context under construction, then queried.        *)
(***************************************************************************)
VARIABLES source, _transformer_layer_num, _pp_degree, _vpp_degree,
          _segment_method, _param_names_by_layer, _stages,
          _layer_index_to_stage, _layer_name_to_index, _layer_index_to_name,
          _layer_name_to_stage, stage_segments, pc, ret,
          hcg, sharding_rank, src_stage_num, state_cache, cache0, conv, log

vars == <<source, _transformer_layer_num, _pp_degree, _vpp_degree,
          _segment_method, _param_names_by_layer, _stages,
          _layer_index_to_stage, _layer_name_to_index, _layer_index_to_name,
          _layer_name_to_stage, stage_segments, pc, ret,
          hcg, sharding_rank, src_stage_num, state_cache, cache0, conv, log>>

\* the context object held in the variables
Ctx ==
    [_transformer_layer_num |-> _transformer_layer_num,
     _pp_degree |-> _pp_degree,
     _vpp_degree |-> _vpp_degree,
     _segment_method |-> _segment_method,
     _param_names_by_layer |-> _param_names_by_layer,
     _stages |-> _stages,
     _layer_index_to_stage |-> _layer_index_to_stage,
     _layer_name_to_index |-> _layer_name_to_index,
     _layer_index_to_name |-> _layer_index_to_name,
     _layer_name_to_stage |-> _layer_name_to_stage,
     stage_segments |-> stage_segments,
     pc |-> pc]

Install(c) ==
    /\ _transformer_layer_num' = c._transformer_layer_num
    /\ _pp_degree' = c._pp_degree
    /\ _vpp_degree' = c._vpp_degree
    /\ _segment_method' = c._segment_method
    /\ _param_names_by_layer' = c._param_names_by_layer
    /\ _stages' = c._stages
    /\ _layer_index_to_stage' = c._layer_index_to_stage
    /\ _layer_name_to_index' = c._layer_name_to_index
    /\ _layer_index_to_name' = c._layer_index_to_name
    /\ _layer_name_to_stage' = c._layer_name_to_stage
    /\ stage_segments' = c.stage_segments
    /\ pc' = c.pc

ctxvars == <<_transformer_layer_num, _pp_degree, _vpp_degree,
             _segment_method, _param_names_by_layer, _stages,
             _layer_index_to_stage, _layer_name_to_index,
             _layer_index_to_name, _layer_name_to_stage, stage_segments, pc>>

\* the arguments of convert_pp_in_group, the invocation conv[r] of each
\* pipeline rank r of the group, the cache as it was handed over (cache0)
\* and the statements each rank has executed (log)
convvars == <<hcg, sharding_rank, src_stage_num, state_cache, cache0, conv, log>>

Sources ==
    {src \in [blocks : 0..MaxBlocks, shape : {"full", "gap", "nohead"},
              base : {0, MaxSrcBase}, split : BOOLEAN] :
        src.shape = "gap" => src.blocks >= 1}

Methods == {"uniform", "layer"}

NoRet == [op |-> "none"]

Init ==
    \E src \in Sources :
        \E catalogue \in {extract_param_names_groupby_layer(SourceMeta(src))} :
           \E tln \in 0..MaxBlocks, pp \in 1..MaxPP, vpp \in 1..MaxVPP,
              method \in Methods :
               \E c \in {NewContext(tln, pp, vpp, method, catalogue)} :
                  /\ source = src
                  /\ _transformer_layer_num = c._transformer_layer_num
                  /\ _pp_degree = c._pp_degree
                  /\ _vpp_degree = c._vpp_degree
                  /\ _segment_method = c._segment_method
                  /\ _param_names_by_layer = c._param_names_by_layer
                  /\ _stages = c._stages
                  /\ _layer_index_to_stage = c._layer_index_to_stage
                  /\ _layer_name_to_index = c._layer_name_to_index
                  /\ _layer_index_to_name = c._layer_index_to_name
                  /\ _layer_name_to_stage = c._layer_name_to_stage
                  /\ stage_segments = c.stage_segments
                  /\ pc = c.pc
                  /\ ret = NoRet
                  /\ hcg = [pp_degree |-> 0]
                  /\ sharding_rank = 0
                  /\ src_stage_num = 0
                  /\ state_cache = <<>>
                  /\ cache0 = {}
                  /\ conv = <<>>
                  /\ log = <<>>

IndexLayers ==
    /\ pc.at = "index_layers"
    /\ Install(do_index_layers(Ctx))
    /\ UNCHANGED <<source, ret, convvars>>

Segment ==
    /\ pc.at = "segment"
    /\ Install(do_segment(Ctx))
    /\ UNCHANGED <<source, ret, convvars>>

NewStage ==
    /\ pc.at = "new_stage"
    /\ Install(do_new_stage(Ctx))
    /\ UNCHANGED <<source, ret, convvars>>

AddSegment ==
    /\ pc.at = "add_segment"
    /\ Install(do_add_segment(Ctx))
    /\ UNCHANGED <<source, ret, convvars>>

AddLayer ==
    /\ pc.at = "add_layer"
    /\ Install(do_add_layer(Ctx))
    /\ UNCHANGED <<source, ret, convvars>>

BuildNameMapping ==
    /\ pc.at = "build"
    /\ Install(do_build(Ctx))
    /\ UNCHANGED <<source, ret, convvars>>

\* names a caller may present: those of the catalogue, a name of a layer
\* that is not in it, a name of no layer, an unknown name of a known layer
CatalogueParams ==
    UNION {{_param_names_by_layer[k][2][m] :
               m \in DOMAIN _param_names_by_layer[k][2]} :
           k \in DOMAIN _param_names_by_layer}

QueryNames ==
    {p[1] : p \in CatalogueParams}
        \cup {<<"ernie", "layers", "9", "q_proj", "weight">>,
              <<"optimizer", "step">>, <<"ernie", "norm", "bias">>}

QueryTensorNames(param_name) ==
    {p[2] : p \in {q \in CatalogueParams : q[1] = param_name}}
        \cup {TName("linear", 0, "w_0")}

CatalogueLayers ==
    [k \in DOMAIN _param_names_by_layer |-> _param_names_by_layer[k][1]]

QueryLayerLists ==
    {CatalogueLayers, Reverse(CatalogueLayers),
     SubSeq(CatalogueLayers, 1, 2),
     Append(CatalogueLayers, <<"ernie", "layers", "9">>)}

MapName ==
    /\ pc.at = "done"
    /\ ret = NoRet
    /\ \E param_name \in QueryNames :
         \E t_name \in QueryTensorNames(param_name) :
           ret' = [op |-> "map_name", param_name |-> param_name,
                   t_name |-> t_name,
                   result |-> map_name(Ctx, param_name, t_name)]
    /\ UNCHANGED <<source, ctxvars, convvars>>

\* slip: the lookup remembers its answer in the context (the table the
\* variant of lines 369-375 reads)
MapNameToStage_caching ==
    /\ pc.at = "done"
    /\ ret = NoRet
    /\ \E name \in QueryNames :
           /\ ret' = [op |-> "map_name_to_stage", name |-> name,
                      result |-> map_name_to_stage(Ctx, name)]
           /\ _layer_name_to_stage' =
                  D_Set(_layer_name_to_stage, extract_layer_name(name),
                        map_name_to_stage(Ctx, name).value)
    /\ UNCHANGED <<source, _transformer_layer_num, _pp_degree, _vpp_degree,
                   _segment_method, _param_names_by_layer, _stages,
                   _layer_index_to_stage, _layer_name_to_index,
                   _layer_index_to_name, stage_segments, pc, convvars>>

MapNameToStage ==
    /\ pc.at = "done"
    /\ ret = NoRet
    /\ \E name \in QueryNames :
           ret' = [op |-> "map_name_to_stage", name |-> name,
                   result |-> map_name_to_stage(Ctx, name)]
    /\ UNCHANGED <<source, ctxvars, convvars>>

SegmentLayers ==
    /\ pc.at = "done"
    /\ ret = NoRet
    /\ \E layer_names \in QueryLayerLists :
           ret' = [op |-> "segment_layers", layer_names |-> layer_names,
                   result |-> segment_layers(Ctx, layer_names)]
    /\ UNCHANGED <<source, ctxvars, convvars>>

\* the caller has used the value returned by a query (lines 413-430) and
\* is free to make the next call
ReturnToCaller ==
    /\ ret # NoRet
    /\ ret' = NoRet
    /\ UNCHANGED <<source, ctxvars, convvars>>

Next ==
    \/ IndexLayers
    \/ Segment
    \/ NewStage
    \/ AddSegment
    \/ AddLayer
    \/ BuildNameMapping
    \/ MapName
    \/ MapNameToStage
    \/ SegmentLayers
    \/ ReturnToCaller

Spec == Init /\ [][Next]_vars

\* construction alone: the statements of __init__, no query
BuildNext ==
    \/ IndexLayers
    \/ Segment
    \/ NewStage
    \/ AddSegment
    \/ AddLayer
    \/ BuildNameMapping

BuildSpec == Init /\ [][BuildNext]_vars

(***************************************************************************)
(* One PipeLineStage driven through its methods (lines 213-246): segments  *)
(* and layers are added in any order, build_name_mapping is called, names  *)
(* are looked up before and after.  The stage is _stages[1]; pc.at is      *)
(* "stage" until build_name_mapping is called, then "stage_built" or,      *)
(* when it raised, "stage_failed".                                         *)
(***************************************************************************)
MaxSegments == 2

\* the catalogue the layers handed to add_layer come from
StageSource == [blocks |-> 0, shape |-> "full", base |-> 0, split |-> FALSE]

\* the ordinals a caller may present
StageOrdinals == 0..(Len(_param_names_by_layer) - 1)

StageInit ==
    \E catalogue \in {extract_param_names_groupby_layer(
                          SourceMeta(StageSource))} :
        /\ source = StageSource
        /\ _transformer_layer_num = 0
        /\ _pp_degree = 1
        /\ _vpp_degree = 1
        /\ _segment_method = "uniform"
        /\ _param_names_by_layer = catalogue
        /\ _stages = <<PipeLineStage>>
        /\ _layer_index_to_stage = EmptyDict
        /\ _layer_name_to_index = EmptyDict
        /\ _layer_index_to_name = EmptyDict
        /\ _layer_name_to_stage = EmptyDict
        /\ stage_segments = <<>>
        /\ pc = PC("stage", 0, 0, 0)
        /\ ret = NoRet
        /\ hcg = [pp_degree |-> 0]
        /\ sharding_rank = 0
        /\ src_stage_num = 0
        /\ state_cache = <<>>
        /\ cache0 = {}
        /\ conv = <<>>
        /\ log = <<>>

stagevars == <<source, _transformer_layer_num, _pp_degree, _vpp_degree,
               _segment_method, _param_names_by_layer, _layer_index_to_stage,
               _layer_name_to_index, _layer_index_to_name,
               _layer_name_to_stage, stage_segments, convvars>>

\* PipeLineStage.add_segment (lines 221-225)
StageAddSegment ==
    /\ pc.at = "stage"
    /\ ret = NoRet
    /\ Len(_stages[1].objs) < MaxSegments
    /\ \E start_index, end_index \in StageOrdinals :
          /\ _stages' = <<stage_add_segment(_stages[1], start_index,
                                            end_index)>>
          /\ ret' = [op |-> "add_segment", start_index |-> start_index,
                     end_index |-> end_index]
    /\ UNCHANGED <<stagevars, pc>>

\* PipeLineStage.add_layer (lines 227-230)
StageAddLayer ==
    /\ pc.at = "stage"
    /\ ret = NoRet
    /\ \E layer_index \in StageOrdinals :
         \E k \in DOMAIN _param_names_by_layer :
          LET r == stage_add_layer(_stages[1], layer_index,
                                   _param_names_by_layer[k][1],
                                   _param_names_by_layer[k][2])
          IN /\ k = layer_index + 1
             /\ _stages' = <<r.stage>>
             /\ ret' = [op |-> "add_layer", layer_index |-> layer_index,
                        ok |-> r.ok]
    /\ UNCHANGED <<stagevars, pc>>

\* PipeLineStage.build_name_mapping (lines 232-240)
StageBuild ==
    /\ pc.at = "stage"
    /\ ret = NoRet
    /\ LET r == build_name_mapping(_stages[1])
       IN /\ _stages' = <<r.stage>>
          /\ ret' = [op |-> "build_name_mapping", ok |-> r.ok]
          /\ pc' = PC(IF r.ok THEN "stage_built" ELSE "stage_failed", 0, 0, 0)
    /\ UNCHANGED stagevars

\* PipeLineStage.map_name (lines 242-246)
StageMapName ==
    /\ pc.at \in {"stage", "stage_built", "stage_failed"}
    /\ ret = NoRet
    /\ \E param_name \in QueryNames :
         \E t_name \in QueryTensorNames(param_name) :
           ret' = [op |-> "stage_map_name", param_name |-> param_name,
                   t_name |-> t_name,
                   result |-> stage_map_name(_stages[1], param_name, t_name)]
    /\ UNCHANGED <<stagevars, _stages, pc>>

StageNext ==
    \/ StageAddSegment
    \/ StageAddLayer
    \/ StageBuild
    \/ StageMapName
    \/ ReturnToCaller

StageSpec == StageInit /\ [][StageNext]_vars

(***************************************************************************)
(* The pipeline ranks of one group run convert_pp_in_group on a shared     *)
(* cache with a constructed context.                                       *)
(***************************************************************************)
ShardingRanks == {0, 1}

MaxReCalls == 1

\* the source checkpoints the cache is filled from
ConvSources ==
    {src \in Sources : src.shape = "full" /\ src.base = 0 /\ src.blocks = 2}

\* state_cache[(sharding_rank, p)]: what source pipeline rank p holds
SourceState(meta, sr, p) ==
    LET names == {meta[p + 1][k] : k \in DOMAIN meta[p + 1]}
    IN [model_weights |-> names, opt_state |-> names,
        master_weights |-> names, lr_scheduler |-> <<sr, p>>]

AllKeys(n) == ShardingRanks \X (0..(n - 1))

\* the cache holds every source shard, or one shard is missing
CacheKeySets(n) == {AllKeys(n)} \cup {AllKeys(n) \ {k} : k \in AllKeys(n)}

Idle ==
    [at |-> "idle", pp_degree |-> 0, pp_rank |-> 0, p |-> 0,
     node_model_state |-> NodeModelState, result |-> <<>>]

ConvInit ==
    \E src \in ConvSources :
      \E meta \in {SourceMeta(src)} :
        \E catalogue \in {extract_param_names_groupby_layer(meta)} :
          \E pp \in 1..MaxPP, vpp \in 1..MaxVPP, method \in Methods,
             sr \in ShardingRanks, keys \in CacheKeySets(Len(meta)) :
            \E c \in {NewContext(0, pp, vpp, method, catalogue)} :
               /\ source = src
               /\ _transformer_layer_num = c._transformer_layer_num
               /\ _pp_degree = c._pp_degree
               /\ _vpp_degree = c._vpp_degree
               /\ _segment_method = c._segment_method
               /\ _param_names_by_layer = c._param_names_by_layer
               /\ _stages = c._stages
               /\ _layer_index_to_stage = c._layer_index_to_stage
               /\ _layer_name_to_index = c._layer_name_to_index
               /\ _layer_index_to_name = c._layer_index_to_name
               /\ _layer_name_to_stage = c._layer_name_to_stage
               /\ stage_segments = c.stage_segments
               /\ pc = c.pc
               /\ ret = NoRet
               /\ hcg = [pp_degree |-> pp]
               /\ sharding_rank = sr
               /\ src_stage_num = Len(meta)
               /\ state_cache = [k \in keys |-> SourceState(meta, k[1], k[2])]
               /\ cache0 = keys
               /\ conv = [r \in 0..(pp - 1) |-> Idle]
               /\ log = [r \in 0..(pp - 1) |-> <<>>]

\* the invocations that were not the first of their rank
ReCalls ==
    Cardinality({rk \in UNION {{r} \X DOMAIN log[r] : r \in DOMAIN log} :
                    /\ log[rk[1]][rk[2]] = <<"call">>
                    /\ \E j \in 1..(rk[2] - 1) : log[rk[1]][j] = <<"call">>})

\* lines 393-400: rank r enters convert_pp_in_group
ConvCall(r) ==
    /\ pc.at = "done"
    /\ conv[r].at \in {"idle", "returned", "failed"}
    /\ conv[r].at # "idle" => ReCalls < MaxReCalls
    /\ conv' = [conv EXCEPT
                  ![r] = Invocation(hcg.pp_degree, r, src_stage_num)]
    /\ log' = [log EXCEPT ![r] = Append(@, <<"call">>)]
    /\ UNCHANGED <<source, ctxvars, ret, hcg, sharding_rank, src_stage_num,
                   state_cache, cache0>>

\* lines 400-408, one iteration on rank r
ConvConsume(r) ==
    /\ conv[r].at = "consume"
    /\ LET res == consume(conv[r], state_cache, sharding_rank, src_stage_num)
       IN /\ conv' = [conv EXCEPT ![r] = res.inv]
          /\ state_cache' = res.cache
    /\ log' = [log EXCEPT
                 ![r] = IF <<sharding_rank, conv[r].p>> \in DOMAIN state_cache
                        THEN Append(@, <<"read", conv[r].p>>)
                        ELSE @]
    /\ UNCHANGED <<source, ctxvars, ret, hcg, sharding_rank, src_stage_num,
                   cache0>>

\* line 418: the collective, once every rank of the group has called it
ConvReshard ==
    /\ DOMAIN conv # {}
    /\ \A r \in DOMAIN conv : conv[r].at = "reshard"
    /\ conv' = [r \in DOMAIN conv |-> reshard(conv, r, Ctx)]
    /\ log' = [r \in DOMAIN log |-> Append(log[r], <<"reshard">>)]
    /\ UNCHANGED <<source, ctxvars, ret, hcg, sharding_rank, src_stage_num,
                   state_cache, cache0>>

\* line 424 on rank r
ConvMapName(r) ==
    /\ conv[r].at = "map_name"
    /\ conv' = [conv EXCEPT ![r] = state_map_name(@, Ctx)]
    /\ log' = [log EXCEPT ![r] = Append(@, <<"map_name">>)]
    /\ UNCHANGED <<source, ctxvars, ret, hcg, sharding_rank, src_stage_num,
                   state_cache, cache0>>

\* line 430 on rank r
ConvSplit(r) ==
    /\ conv[r].at = "split"
    /\ conv' = [conv EXCEPT ![r] = split_state(@, Ctx)]
    /\ log' = [log EXCEPT ![r] = Append(@, <<"split">>)]
    /\ UNCHANGED <<source, ctxvars, ret, hcg, sharding_rank, src_stage_num,
                   state_cache, cache0>>

ConvNext ==
    \/ IndexLayers
    \/ Segment
    \/ NewStage
    \/ AddSegment
    \/ AddLayer
    \/ BuildNameMapping
    \/ \E r \in DOMAIN conv : ConvCall(r)
    \/ \E r \in DOMAIN conv : ConvConsume(r)
    \/ ConvReshard
    \/ \E r \in DOMAIN conv : ConvMapName(r)
    \/ \E r \in DOMAIN conv : ConvSplit(r)

ConvSpec == ConvInit /\ [][ConvNext]_vars

(***************************************************************************)
(* Properties of the segmentation planner.                                 *)
(***************************************************************************)
\* _segment has returned
Segmented == stage_segments # <<>>

TLN == transformer_layer_num(Ctx).value

LayerNum == TLN + 3

StageNum == _pp_degree * _vpp_degree

\* all (stage, position) pairs of the segments returned by _segment
SegmentIds ==
    {sk \in (1.._pp_degree) \X (1..StageNum) :
        sk[2] <= Len(stage_segments[sk[1]])}

SegmentAt(sk) == stage_segments[sk[1]][sk[2]]

Holds(sk, o) == SegmentAt(sk)[1] <= o /\ o < SegmentAt(sk)[2]

\* every ordinal of [0, layer_num) is in exactly one segment and no
\* segment reaches outside [0, layer_num)
CoversExactlyOnce ==
    /\ \A o \in 0..(LayerNum - 1) :
          Cardinality({sk \in SegmentIds : Holds(sk, o)}) = 1
    /\ \A sk \in SegmentIds :
          /\ 0 <= SegmentAt(sk)[1]
          /\ SegmentAt(sk)[1] <= SegmentAt(sk)[2]
          /\ SegmentAt(sk)[2] <= LayerNum

\* range i (0-based, in the order of the boundaries) as stored per stage
RangeOf(i) == stage_segments[(i % _pp_degree) + 1][(i \div _pp_degree) + 1]

Width(i) == RangeOf(i)[2] - RangeOf(i)[1]

\* C1: under the uniform policy with layer_num >= stage_num the segments
\* returned by _segment cover every ordinal of [0, layer_num) exactly once.
C1_UniformCoverage ==
    (Segmented /\ _segment_method = "uniform" /\ LayerNum >= StageNum)
        => CoversExactlyOnce

C1_Witness ==
    /\ Segmented /\ _segment_method = "uniform" /\ source.shape = "full"
    /\ StageNum >= 3 /\ LayerNum > StageNum /\ LayerNum % StageNum # 0

\* C2: under the by-layer-weight policy with layer_num >= stage_num,
\* _segment does not fail and returns boundaries whose segments cover every
\* ordinal of [0, layer_num) exactly once.
C2_ByLayerCoverage ==
    [][(pc.at = "segment" /\ _segment_method = "layer"
            /\ source.shape = "full" /\ TLN >= 1 /\ LayerNum >= StageNum)
        => (pc'.at = "new_stage" /\ CoversExactlyOnce')]_vars

\* C7 as stated: N = 4, pp = 2, vpp = 1, uniform gives boundaries [0, 4, 7].
C7_Stated ==
    (Segmented /\ _segment_method = "uniform" /\ TLN = 4
        /\ _pp_degree = 2 /\ _vpp_degree = 1)
        => stage_segments = << << <<0, 4>> >>, << <<4, 7>> >> >>

\* C7 (amended): N = 4, pp = 2, vpp = 1, uniform gives boundaries
\* [0, 3, 7]: stage 0 owns ordinals {0, 1, 2}, stage 1 owns {3, 4, 5, 6}.
C7_UniformScenario ==
    (Segmented /\ _segment_method = "uniform" /\ TLN = 4
        /\ _pp_degree = 2 /\ _vpp_degree = 1)
        => /\ stage_segments = << << <<0, 3>> >>, << <<3, 7>> >> >>
           /\ pc.at = "done" =>
                 /\ DOMAIN _layer_index_to_stage = 0..6
                 /\ \A o \in 0..6 :
                       _layer_index_to_stage[o] = (IF o <= 2 THEN 0 ELSE 1)

C7_Witness ==
    /\ pc.at = "done" /\ _segment_method = "uniform" /\ TLN = 4
    /\ _pp_degree = 2 /\ _vpp_degree = 1

\* C8: under the uniform policy with layer_num >= stage_num >= 1 the first
\* stage_num - r ranges have width base and the last r ranges width
\* base + 1, where base = layer_num div stage_num, r = layer_num mod stage_num.
C8_UniformRemainder ==
    (Segmented /\ _segment_method = "uniform" /\ LayerNum >= StageNum)
        => \A i \in 0..(StageNum - 1) :
              Width(i) = (LayerNum \div StageNum)
                  + (IF i < StageNum - (LayerNum % StageNum) THEN 0 ELSE 1)

C8_Witness ==
    /\ Segmented /\ _segment_method = "uniform" /\ LayerNum >= StageNum
    /\ source.shape = "full"
    /\ LayerNum % StageNum >= 2 /\ StageNum - (LayerNum % StageNum) >= 2

\* blocks (ordinals 1 .. N) held by range i
BlocksIn(i) ==
    Cardinality({o \in 1..TLN : RangeOf(i)[1] <= o /\ o < RangeOf(i)[2]})

\* C9: under the by-layer-weight policy with N >= stage_num, _segment does
\* not fail, the first range starts at ordinal 0, the final range ends after
\* the last two ordinals, and every range but the final one holds exactly
\* N div stage_num blocks; N = 4, pp = 2, vpp = 1 gives [0, 3, 7].
C9_ByLayerBalance ==
    [][(pc.at = "segment" /\ _segment_method = "layer"
            /\ source.shape = "full" /\ TLN >= StageNum)
        => /\ pc'.at = "new_stage"
           /\ RangeOf(0)'[1] = 0
           /\ RangeOf(StageNum - 1)'[2] = LayerNum
           /\ RangeOf(StageNum - 1)'[1] <= LayerNum - 2
           /\ \A i \in 0..(StageNum - 2) :
                 BlocksIn(i)' = TLN \div StageNum
           /\ (TLN = 4 /\ _pp_degree = 2 /\ _vpp_degree = 1)
                 => stage_segments' = << << <<0, 3>> >>, << <<3, 7>> >> >>]_vars

\* the boundaries _segment computes for the context
Boundaries == segment_boundaries(_segment_method, LayerNum, StageNum).result

NonDecreasing(b) == \A i \in 1..(Len(b) - 1) : b[i] <= b[i + 1]

Constructed == pc.at = "done"

LayerSet == OD_Keys(_param_names_by_layer)

\* the ordinal the scheme gives a layer name
SchemeOrdinal(layer_name) ==
    IF layer_name = <<"ernie", "embed_tokens">> THEN 0
    ELSE IF layer_name = <<"ernie", "norm">> THEN TLN + 1
    ELSE IF layer_name = <<"lm_head">> THEN TLN + 2
    ELSE IntOf(layer_name[3]) + 1

\* C5: on a constructed context the layer-name-to-ordinal map is a
\* bijection between the layers of the catalogue and 0 .. layer_num - 1
\* (embedding 0, block k at k + 1, norm N + 1, head N + 2); a catalogue
\* whose ordinals have a gap or a duplicate yields no constructed context.
C5_Bijection ==
    Constructed =>
        /\ DOMAIN _layer_name_to_index = LayerSet
        /\ {_layer_name_to_index[l] : l \in LayerSet} = 0..(LayerNum - 1)
        /\ \A l1, l2 \in LayerSet :
              _layer_name_to_index[l1] = _layer_name_to_index[l2] => l1 = l2
        /\ \A l \in LayerSet : _layer_name_to_index[l] = SchemeOrdinal(l)
        /\ DOMAIN _layer_index_to_name = 0..(LayerNum - 1)
        /\ \A l \in LayerSet :
              _layer_index_to_name[_layer_name_to_index[l]] = l

C5_Witness == Constructed /\ TLN >= 2 /\ _pp_degree >= 2

CatalogueNames == {p[1] : p \in CatalogueParams}

IsPermutationOfLayers(layer_names) ==
    /\ Len(layer_names) = Cardinality(LayerSet)
    /\ {layer_names[k] : k \in DOMAIN layer_names} = LayerSet

ListSet(l) == {l[k] : k \in DOMAIN l}

\* C6: on a constructed context map_name_to_stage of every catalogue name
\* is in [0, pp_degree), and segment_layers of all layers returns pp_degree
\* pairwise disjoint lists whose union is the layer set, list s holding the
\* layers of stage s in ascending ordinal order.
C6_StageOwnership ==
    /\ (ret.op = "map_name_to_stage" /\ ret.name \in CatalogueNames)
          => /\ ret.result.ok
             /\ ret.result.value \in 0..(_pp_degree - 1)
    /\ (ret.op = "segment_layers" /\ IsPermutationOfLayers(ret.layer_names))
          => /\ ret.result.ok
             /\ Len(ret.result.value) = _pp_degree
             /\ \A s1, s2 \in 1.._pp_degree :
                   s1 # s2 => ListSet(ret.result.value[s1])
                                 \cap ListSet(ret.result.value[s2]) = {}
             /\ UNION {ListSet(ret.result.value[s]) : s \in 1.._pp_degree}
                   = LayerSet
             /\ \A s \in 1.._pp_degree :
                   LET l == ret.result.value[s]
                   IN /\ ListSet(l) =
                            {extract_layer_name(n) : n \in
                                {m \in CatalogueNames :
                                    map_name_to_stage(Ctx, m).value = s - 1}}
                      /\ \A a, b \in DOMAIN l :
                            a < b => _layer_name_to_index[l[a]]
                                        < _layer_name_to_index[l[b]]

C6_Witness ==
    /\ ret.op = "segment_layers"
    /\ ret.layer_names = Reverse(CatalogueLayers)
    /\ _pp_degree >= 2
    /\ \A s \in 1.._pp_degree : Len(ret.result.value[s]) >= 2

(***************************************************************************)
(* Properties of the canonical names.                                      *)
(***************************************************************************)
\* the entries <<param_name, <<tensor_name, n_name>> >> of stage s, in the
\* order build_name_mapping recorded them
Entries(s) == _stages[s]._param_to_tname

Role(e) == get_layer_prefix(FirstComponent(e[2][1]))

Occurrence(e) == <<extract_layer_name(e[1]), FirstComponent(e[2][1])>>

Counter(e) == e[2][2].num

\* the entries of stage s with the role of entry a that come after a
LaterOfRole(s, a) ==
    {b \in DOMAIN Entries(s) :
        b > a /\ Role(Entries(s)[b]) = Role(Entries(s)[a])}

\* C4: in the name mapping of a stage, parameters of one layer with the
\* same first tensor-name component get the same canonical first
\* component; parameters of one role that differ in layer or in first
\* component get different counters; the first occurrence of a role gets
\* counter 0 and each new occurrence the next counter.
C4_OccurrenceGrouping ==
    \A s \in DOMAIN _stages :
        LET E == Entries(s)
        IN /\ \A a, b \in DOMAIN E :
                 /\ Occurrence(E[a]) = Occurrence(E[b])
                       => FirstComponent(E[a][2][2])
                             = FirstComponent(E[b][2][2])
                 /\ (Role(E[a]) = Role(E[b])
                        /\ Occurrence(E[a]) # Occurrence(E[b]))
                       => Counter(E[a]) # Counter(E[b])
           /\ \A a \in DOMAIN E :
                 /\ E[a][2][2].prefix = Role(E[a])
                 /\ (\A b \in DOMAIN E : b < a => Role(E[b]) # Role(E[a]))
                       => Counter(E[a]) = 0
                 /\ LaterOfRole(s, a) # {} =>
                       LET b == CHOOSE x \in LaterOfRole(s, a) :
                                   \A y \in LaterOfRole(s, a) : x <= y
                       IN Counter(E[b]) =
                             (IF Occurrence(E[b]) = Occurrence(E[a])
                              THEN Counter(E[a]) ELSE Counter(E[a]) + 1)

\* a stage maps weight and bias of one linear, and two layers whose layer
\* norms carry the same source tensor name
C4_Witness ==
    /\ Constructed
    /\ \E s \in DOMAIN _stages : \E a, b \in DOMAIN Entries(s) :
          /\ a # b
          /\ Occurrence(Entries(s)[a]) = Occurrence(Entries(s)[b])
    /\ \E s \in DOMAIN _stages : \E a, b \in DOMAIN Entries(s) :
          /\ Occurrence(Entries(s)[a])[1] # Occurrence(Entries(s)[b])[1]
          /\ Occurrence(Entries(s)[a])[2] = Occurrence(Entries(s)[b])[2]

\* the canonical name a constructed context c records for a catalogue name
CanonicalName(c, param_name) ==
    OD_Get(c._stages[map_name_to_stage(c, param_name).value + 1]
              ._param_to_tname, param_name)[2]

\* the sources that describe the logical model of `source`
SameModelSources ==
    {src \in Sources :
        src.blocks = source.blocks /\ src.shape = source.shape}

\* C3: two catalogues of the same logical model from different source
\* shardings, built with the same transformer_layer_num, pp_degree,
\* vpp_degree and policy, give every parameter the same canonical name.
C3_SourceInvariance ==
    Constructed =>
        \A src \in SameModelSources :
            LET other == build_pipeline_context(
                             SourceMeta(src), _transformer_layer_num,
                             _pp_degree, _vpp_degree, _segment_method)
            IN /\ other.pc.at = "done"
               /\ \A n \in CatalogueNames :
                     CanonicalName(other, n) = CanonicalName(Ctx, n)

(***************************************************************************)
(* Canonical names across the stages of one context.                       *)
(***************************************************************************)
\* the canonical names in the name mapping of stage s
StageCanon(s) == {Entries(s)[a][2][2] : a \in DOMAIN Entries(s)}

\* C11 as stated: in a constructed context with pp_degree >= 2 no
\* canonical name of one stage equals a canonical name of another stage.
C11_Stated ==
    (Constructed /\ _pp_degree >= 2) =>
        \A s1, s2 \in DOMAIN _stages :
            s1 # s2 => StageCanon(s1) \cap StageCanon(s2) = {}

\* C11 amended: canonical names are unique within a stage: two different
\* parameters in the name mapping of one stage never have the same
\* canonical name (stages number their names from 0 independently, so
\* names of different stages may be equal).
C11_StageScoped ==
    \A s \in DOMAIN _stages :
        \A a, b \in DOMAIN Entries(s) :
            a # b => Entries(s)[a][2][2] # Entries(s)[b][2][2]

\* two stages record the same canonical name, and one of them holds two
\* layers whose parameters carry the same source tensor name
C11_Witness ==
    /\ Constructed
    /\ _pp_degree >= 2
    /\ \E s1, s2 \in DOMAIN _stages :
          s1 # s2 /\ StageCanon(s1) \cap StageCanon(s2) # {}
    /\ \E s \in DOMAIN _stages : \E a, b \in DOMAIN Entries(s) :
          /\ a # b
          /\ Entries(s)[a][2][1] = Entries(s)[b][2][1]

(***************************************************************************)
(* Name lookup on the constructed context.                                 *)
(***************************************************************************)
\* the stages whose name mapping has an entry for param_name
Owners(param_name) ==
    {s \in DOMAIN _stages : OD_Has(Entries(s), param_name)}

\* the tensor name the catalogue gives param_name
CatalogueTensor(param_name) ==
    CHOOSE t \in {p[2] : p \in {q \in CatalogueParams : q[1] = param_name}} :
        TRUE

\* C12: map_name(raw_name, tensor_name) on a constructed context returns
\* the canonical name the owning stage recorded for raw_name when raw_name
\* is in the catalogue and tensor_name is the recorded tensor name; it
\* fails when raw_name or its layer is unknown and when tensor_name
\* differs from the recorded one; the call leaves the context unchanged.
C12_LookupGuard ==
    /\ [](ret.op = "map_name" =>
            LET n == ret.param_name
            IN IF n \in CatalogueNames
               THEN /\ Owners(n) =
                          {_layer_index_to_stage[
                              _layer_name_to_index[extract_layer_name(n)]] + 1}
                    /\ \A s \in Owners(n) :
                          LET e == OD_Get(Entries(s), n)
                          IN /\ e[1] = CatalogueTensor(n)
                             /\ ret.result =
                                   (IF ret.t_name = e[1]
                                    THEN [ok |-> TRUE, value |-> e[2]]
                                    ELSE [ok |-> FALSE, value |-> EmptyName])
               ELSE ~ret.result.ok)
    /\ [][ret'.op = "map_name" => UNCHANGED ctxvars]_vars

\* lookups that succeed on a later stage and lookups refused for a
\* tensor name that is not the recorded one
C12_Witness ==
    /\ ret.op = "map_name"
    /\ ret.param_name \in CatalogueNames
    /\ ret.t_name # CatalogueTensor(ret.param_name)
    /\ ~ret.result.ok
    /\ _pp_degree >= 2
    /\ map_name(Ctx, ret.param_name, CatalogueTensor(ret.param_name)).ok
    /\ map_name(Ctx, ret.param_name,
                CatalogueTensor(ret.param_name)).value.num >= 1

(***************************************************************************)
(* Properties of convert_pp_in_group.                                      *)
(***************************************************************************)
\* the positions of log[r] at which rank r read a cache entry
Reads(r) == {k \in DOMAIN log[r] : log[r][k][1] = "read"}

\* the position of the last call of rank r in log[r]
LastCall(r) ==
    CHOOSE k \in DOMAIN log[r] :
        /\ log[r][k] = <<"call">>
        /\ \A j \in DOMAIN log[r] : j > k => log[r][j] # <<"call">>

\* the source ranks rank r has read in its current invocation
ReadNow(r) == {log[r][k][2] : k \in {j \in Reads(r) : j > LastCall(r)}}

\* the source ranks an invocation of rank r needs
Needed(r) ==
    {p \in 0..(src_stage_num - 1) : p >= r /\ (p - r) % hcg.pp_degree = 0}

PastConsume(r) == conv[r].at \in {"reshard", "map_name", "split", "returned"}

\* C13: convert_pp_in_group removes every cache entry it reads when it
\* reads it, so over all invocations on one cache an entry is read at most
\* once (and nothing else leaves the cache); an invocation whose key is
\* absent or already removed fails, and none gets past the loop without
\* having read every entry it needs.
C13_SingleUse ==
    /\ \A r1, r2 \in DOMAIN log :
          \A k1 \in Reads(r1), k2 \in Reads(r2) :
              log[r1][k1] = log[r2][k2] => (r1 = r2 /\ k1 = k2)
    /\ DOMAIN state_cache =
          cache0 \ UNION {{<<sharding_rank, log[r][k][2]>> : k \in Reads(r)} :
                             r \in DOMAIN log}
    /\ \A r \in DOMAIN conv :
          /\ conv[r].at = "failed" =>
                <<sharding_rank, conv[r].p>> \notin DOMAIN state_cache
          /\ PastConsume(r) => ReadNow(r) = Needed(r)
          /\ conv[r].at = "consume" =>
                ReadNow(r) = {p \in Needed(r) : p < conv[r].p}

\* a rank called again fails on the entry its first invocation removed
C13_Witness ==
    \E r \in DOMAIN conv :
        /\ conv[r].at = "failed"
        /\ <<sharding_rank, conv[r].p>> \in cache0
        /\ \E k \in Reads(r) : log[r][k] = <<"read", conv[r].p>>
        /\ ReadNow(r) = {}

\* the place of a logged statement in the order of the coordinator
Phase(e) ==
    CASE e[1] = "call" -> 0
      [] e[1] = "read" -> 1
      [] e[1] = "reshard" -> 2
      [] e[1] = "map_name" -> 3
      [] e[1] = "split" -> 4

\* the keys of the three bags of rank r
HeldNames(r) ==
    UNION {conv[r].node_model_state[bag] : bag \in BagNames}

\* C14: in one invocation the statements run in the order consume (all
\* cache reads), reshard, rename, split: a cache entry is read only
\* before reshard, the names are rewritten only after reshard has
\* returned, and split runs only after the rename.
C14_StepOrder ==
    \A r \in DOMAIN log :
        /\ \A j \in DOMAIN log[r] :
              IF j = 1 THEN log[r][j] = <<"call">>
              ELSE LET a == Phase(log[r][j - 1])
                       b == Phase(log[r][j])
                   IN CASE b = 0 -> TRUE
                        [] b \in {1, 2} -> a \in {0, 1}
                        [] OTHER -> a = b - 1
        /\ conv[r].at \in {"consume", "reshard", "map_name"} =>
              HeldNames(r) \subseteq CatalogueParams
        /\ conv[r].at \in {"map_name", "split", "returned"} =>
              \A n \in HeldNames(r) :
                  map_name_to_stage(Ctx, n[1]).value = r
        /\ conv[r].at \in {"split", "returned"} =>
              \A n \in HeldNames(r) : n[2] = CanonicalName(Ctx, n[1])

\* a rank has run all four steps on entries it took from the cache and
\* holds renamed entries that another rank had taken
C14_Witness ==
    \E r \in DOMAIN conv :
        /\ conv[r].at = "returned"
        /\ hcg.pp_degree >= 2
        /\ Len(log[r]) = 5
        /\ Phase(log[r][2]) = 1
        /\ \E n \in HeldNames(r) :
              \A m \in SourceState(SourceMeta(source), sharding_rank,
                                   log[r][2][2]).model_weights :
                  m[1] # n[1]

Received(segment) == segment._cur_index - segment._start_index

DeclaredWidth(segment) == segment._end_index - segment._start_index

\* the segment object of stage st that ordinal o is mapped to
TargetOf(st, o) == st.objs[st._layer_to_segment[o]]

\* the segments build_name_mapping of stage st reads
SegmentsOf(st) == {st.objs[st._segments[k][2]] : k \in DOMAIN st._segments}

\* C16: Stage.add_layer fails when the ordinal is not mapped to a segment
\* of the stage and when the target segment has already received
\* end - start layers, and otherwise adds one layer to that segment;
\* build_name_mapping fails when a segment has received fewer layers than
\* end - start; so the name mapping of a stage only holds parameters of
\* segments that received exactly their declared width.
C16_WidthGuard ==
    /\ [][(ret = NoRet /\ ret'.op = "add_layer") =>
            LET st == _stages[1]
                o == ret'.layer_index
            IN /\ ret'.ok <=>
                     /\ o \in DOMAIN st._layer_to_segment
                     /\ Received(TargetOf(st, o))
                           < DeclaredWidth(TargetOf(st, o))
               /\ ~ret'.ok => _stages' = _stages
               /\ ret'.ok =>
                     Received(TargetOf(_stages'[1], o))
                        = Received(TargetOf(st, o)) + 1]_vars
    /\ [][(ret = NoRet /\ ret'.op = "build_name_mapping") =>
            (ret'.ok <=>
                \A seg \in SegmentsOf(_stages[1]) :
                    Received(seg) = DeclaredWidth(seg))]_vars
    /\ [](\A s \in DOMAIN _stages : \A a \in DOMAIN Entries(s) :
            \E seg \in SegmentsOf(_stages[s]) :
                /\ Received(seg) = DeclaredWidth(seg)
                /\ \E l \in DOMAIN seg._layers :
                      OD_Has(seg._layers[l][2]._params, Entries(s)[a][1]))

\* add_layer was refused on a segment that holds its declared width of
\* at least one layer
C16_Witness ==
    /\ pc.at = "stage"
    /\ ret.op = "add_layer"
    /\ ~ret.ok
    /\ ret.layer_index \in DOMAIN _stages[1]._layer_to_segment
    /\ DeclaredWidth(TargetOf(_stages[1], ret.layer_index)) >= 1
    /\ Received(TargetOf(_stages[1], ret.layer_index))
          = DeclaredWidth(TargetOf(_stages[1], ret.layer_index))

(***************************************************************************)
(* Validation of transformer_layer_num.                                    *)
(***************************************************************************)
\* the number of distinct logical layers of the catalogue
LayerCount == Cardinality(LayerSet)

\* the value the ordinals were computed with: norm is at that value + 1
UsedForOrdinals == _layer_name_to_index[<<"ernie", "norm">>] - 1

\* C17: with transformer_layer_num supplied, construction fails unless the
\* catalogue has transformer_layer_num + 3 distinct layers; with it unset
\* the ordinals and the segmentation use (number of distinct layers) - 3.
C17_LayerCount ==
    /\ (_transformer_layer_num > 0
           /\ LayerCount # _transformer_layer_num + 3
           /\ pc.at # "index_layers")
          => pc = Failed
    /\ (pc.at \notin {"index_layers", "failed"}) =>
          /\ _transformer_layer_num > 0 =>
                UsedForOrdinals = _transformer_layer_num
          /\ _transformer_layer_num <= 0 =>
                UsedForOrdinals = LayerCount - 3
    /\ Segmented =>
          /\ _transformer_layer_num > 0 =>
                RangeOf(StageNum - 1)[2] = _transformer_layer_num + 3
          /\ _transformer_layer_num <= 0 =>
                RangeOf(StageNum - 1)[2] = LayerCount

\* construction failed on a well-formed catalogue whose layer count is
\* not the supplied transformer_layer_num + 3
C17_Witness ==
    /\ pc = Failed
    /\ source.shape = "full"
    /\ _transformer_layer_num > 0
    /\ LayerCount = source.blocks + 3
    /\ LayerCount # _transformer_layer_num + 3
    /\ _layer_name_to_index = EmptyDict

(***************************************************************************)
(* The order of construction.                                              *)
(***************************************************************************)
\* what build_name_mapping writes of stage s
Mapping(s) == <<_stages[s]._param_to_tname, _stages[s]._rename_mgr>>

Unbuilt == <<PipeLineStage._param_to_tname, PipeLineStage._rename_mgr>>

\* every add_segment and add_layer call of __init__ has been made
AllAdded ==
    /\ Len(_stages) = _pp_degree
    /\ \A s \in DOMAIN _stages :
          /\ Len(_stages[s].objs) = Len(stage_segments[s])
          /\ \A k \in DOMAIN stage_segments[s] :
                /\ _stages[s].objs[k]._start_index = stage_segments[s][k][1]
                /\ _stages[s].objs[k]._end_index = stage_segments[s][k][2]
                /\ Received(_stages[s].objs[k])
                      = Max2(0, DeclaredWidth(_stages[s].objs[k]))

\* C18: during construction build_name_mapping runs once on every stage,
\* in stage order, and only when every segment and layer of every stage
\* has been added; map_name of a stage that is not built yet fails for
\* every name; no lookup is made on a context before all its stages are
\* built.
C18_BuildProtocol ==
    /\ [][\A s \in DOMAIN _stages :
            (s \in DOMAIN _stages' /\ Mapping(s)' # Mapping(s)) =>
                /\ pc.at = "build"
                /\ pc.i = s - 1
                /\ Mapping(s) = Unbuilt
                /\ AllAdded]_vars
    /\ [][pc.at = "build" =>
            \/ pc' = pc
            \/ pc' = Failed
            \/ pc' = PC("build", pc.i + 1, 0, 0) /\ pc.i + 1 < Len(_stages)
            \/ pc' = PC("done", 0, 0, 0) /\ pc.i + 1 = Len(_stages)]_vars
    /\ [](\A s \in DOMAIN _stages :
            (pc.at \in {"new_stage", "add_segment", "add_layer"}
                \/ (pc.at = "build" /\ pc.i < s)) =>
               /\ Mapping(s) = Unbuilt
               /\ \A n \in QueryNames : \A t \in QueryTensorNames(n) :
                     ~stage_map_name(_stages[s], n, t).ok)
    /\ [](ret # NoRet => (Constructed /\ AllAdded))

\* a lookup succeeds on the last of several stages, each built from the
\* layers it was given
C18_Witness ==
    /\ Constructed
    /\ _pp_degree >= 2
    /\ \A s \in DOMAIN _stages : Entries(s) # <<>>
    /\ ret.op = "map_name"
    /\ ret.result.ok
    /\ OD_Has(Entries(_pp_degree), ret.param_name)

(***************************************************************************)
(* The counters of the canonical names of a stage.                         *)
(***************************************************************************)
\* the ordinal of the layer of entry e
OrdinalOf(e) == _layer_name_to_index[extract_layer_name(e[1])]

\* the entries of stage s with a given role
OfRole(s, role) == {a \in DOMAIN Entries(s) : Role(Entries(s)[a]) = role}

\* C19: in the name mapping of a stage the counters of each role are
\* exactly 0 .. k - 1, k the number of distinct (layer, first component)
\* occurrences of the role on the whole stage (the count is not reset at
\* a segment), and an occurrence in a layer of lower ordinal never has a
\* higher counter than one of the same role in a layer of higher ordinal.
C19_DenseCounters ==
    \A s \in DOMAIN _stages :
        \A role \in {Role(Entries(s)[a]) : a \in DOMAIN Entries(s)} :
            LET E == Entries(s)
                idx == OfRole(s, role)
                k == Cardinality({Occurrence(E[a]) : a \in idx})
            IN /\ {Counter(E[a]) : a \in idx} = 0..(k - 1)
               /\ \A a, b \in idx :
                     OrdinalOf(E[a]) < OrdinalOf(E[b])
                        => Counter(E[a]) <= Counter(E[b])

\* a stage with two segments that both hold a transformer block: the
\* linears of the second segment continue the count of the first
C19_Witness ==
    /\ Constructed
    /\ \E s \in DOMAIN _stages :
          /\ Len(_stages[s]._segments) >= 2
          /\ \E k1, k2 \in DOMAIN _stages[s]._segments :
                /\ k1 < k2
                /\ \E a, b \in OfRole(s, "linear") :
                      /\ OrdinalOf(Entries(s)[a])
                            < _stages[s]._segments[k2][1]
                      /\ OrdinalOf(Entries(s)[b])
                            >= _stages[s]._segments[k2][1]
                      /\ Counter(Entries(s)[b]) >= 2

(***************************************************************************)
(* The source shards taken by the ranks of one group.                      *)
(***************************************************************************)
\* the cache was handed over with every source shard of sharding_rank
FullCache ==
    \A p \in 0..(src_stage_num - 1) : <<sharding_rank, p>> \in cache0

\* the source pipeline ranks rank r has taken from the cache
Taken(r) == {log[r][k][2] : k \in Reads(r)}

\* the source pipeline ranks congruent to r modulo pp_degree
Residue(r) == {p \in 0..(src_stage_num - 1) : p % hcg.pp_degree = r}

\* every rank of the group has left the loop of lines 400-408
AllPastConsume == \A r \in DOMAIN conv : PastConsume(r)

\* C20: when the ranks r of [0, pp_degree) run convert_pp_in_group for one
\* sharding_rank and src_stage_num on a cache that holds every source
\* shard, in any interleaving, rank r takes exactly the source ranks p of
\* [0, src_stage_num) with p mod pp_degree = r: the sets of different
\* ranks are disjoint, together they are all of [0, src_stage_num), every
\* shard is taken by exactly one rank and a rank r >= src_stage_num takes
\* nothing.
C20_Partition ==
    FullCache =>
        /\ \A r \in DOMAIN conv :
              /\ Taken(r) \subseteq Residue(r)
              /\ PastConsume(r) => Taken(r) = Residue(r)
              /\ r >= src_stage_num => Taken(r) = {}
        /\ \A r1, r2 \in DOMAIN conv :
              r1 # r2 => Taken(r1) \cap Taken(r2) = {}
        /\ AllPastConsume =>
              /\ UNION {Taken(r) : r \in DOMAIN conv}
                    = 0..(src_stage_num - 1)
              /\ \A p \in 0..(src_stage_num - 1) :
                    /\ Cardinality({r \in DOMAIN conv : p \in Taken(r)}) = 1
                    /\ <<sharding_rank, p>> \notin DOMAIN state_cache

\* three ranks and two source shards: every rank has left the loop, two
\* of them with a shard and the third with none
C20_Witness ==
    /\ FullCache
    /\ hcg.pp_degree > src_stage_num
    /\ src_stage_num >= 2
    /\ AllPastConsume
    /\ \A r \in DOMAIN conv : Len(log[r]) >= 1
    /\ \E r \in DOMAIN conv : Taken(r) = {}
    /\ \E r \in DOMAIN conv : Taken(r) # {} /\ r >= 1

====
